---- MODULE Spec2Model ----
(***************************************************************************)
(* A model of the annotation tool of src/annotation.py: the               *)
(* AnnotationManager (frame store, track index, interpolation and          *)
(* folder-wide identity edits) and the MainWindow handlers that drive it.  *)
(*                                                                         *)
(* Conventions of the model                                                *)
(*  - A frame is named by its index in the sorted frame_files list; the    *)
(*    record file of frame i is disk[i].  os.listdir of the record folder  *)
(*    is taken in that same order.                                         *)
(*  - A record file is absent, malformed (json.load raises) or a JSON      *)
(*    object; a JSON object maps string keys to entries that hold 'box',   *)
(*    'class' and 'track_id'.  String keys are tuples of decimal digits.   *)
(*  - A Python dict iterates in insertion order.  The record dicts of the  *)
(*    program are filled in ascending key order (local ids only grow), so  *)
(*    their iteration is modelled as ascending key order.  The one loop    *)
(*    over the track index, in run_interpolation_all, takes any order.     *)
(*  - Coordinates are exact rationals <<numerator, denominator>>; the      *)
(*    rounding of Python floats is not modelled.                           *)
(***************************************************************************)
EXTENDS Integers, Sequences, FiniteSets, TLC

VARIABLES
    manager,              \* the AnnotationManager object
    disk,                 \* the record folder: frame index -> record file
    frame_files,          \* MainWindow.frame_files, as the number of frames
    current_frame_idx,    \* MainWindow.current_frame_idx
    list_folder_objects,  \* track ids shown in the folder list widget
    btn_yolo,             \* whether the detection button is enabled
    yolo_thread,          \* the YoloWorker: its position and its results
    pending_draw_data,    \* MainWindow.pending_draw_data (is_drawing_mode when set)
    issued,               \* history: local ids seen since the last load
    snapshot,             \* history: the folder before the last folder-wide operation
    last,                 \* history: the last operation, its inputs and result
    steps,                \* history: number of operations performed
    writing               \* the frame file a write has open, and what it is writing

vars == <<manager, disk, frame_files, current_frame_idx, list_folder_objects,
          btn_yolo, yolo_thread, pending_draw_data, issued, snapshot, last, steps,
          writing>>

----------------------------------------------------------------------------
(* Bounds of the model *)

MaxSteps == 4

MaxStoreSteps == 4

MaxInterpSteps == 2

InterpFrames == 4

MaxMutatorSteps == 2

MutatorFrames == 2

----------------------------------------------------------------------------
(* Exact rational arithmetic for coordinates, areas and IoU values *)

RECURSIVE GCD(_, _)
GCD(a, b) == IF b = 0 THEN a ELSE GCD(b, a % b)

Abs(n) == IF n < 0 THEN -n ELSE n

QNorm(n, d) ==
    IF n = 0 THEN <<0, 1>>
    ELSE LET s == IF d < 0 THEN -1 ELSE 1
             g == GCD(Abs(n), Abs(d))
         IN  <<(s * n) \div g, (s * d) \div g>>

Q(n) == <<n, 1>>

QAdd(a, b) == QNorm(a[1] * b[2] + b[1] * a[2], a[2] * b[2])

QSub(a, b) == QNorm(a[1] * b[2] - b[1] * a[2], a[2] * b[2])

QMul(a, b) == QNorm(a[1] * b[1], a[2] * b[2])

QDiv(a, b) == QNorm(a[1] * b[2], a[2] * b[1])

QLess(a, b) == a[1] * b[2] < b[1] * a[2]

QMax(a, b) == IF QLess(a, b) THEN b ELSE a

QMin(a, b) == IF QLess(b, a) THEN b ELSE a

----------------------------------------------------------------------------
(* Python and JSON values *)

None == -1000

NoDraw == [class |-> None, track |-> None]

NoPath == -1

RECURSIVE str(_)
str(n) == IF n < 10 THEN <<n>> ELSE str(n \div 10) \o <<n % 10>>

RECURSIVE int(_)
int(s) == IF Len(s) = 1 THEN s[1]
          ELSE 10 * int(SubSeq(s, 1, Len(s) - 1)) + s[Len(s)]

EmptyDict == [k \in {} |-> None]

Put(d, k, v) == [x \in DOMAIN d \cup {k} |-> IF x = k THEN v ELSE d[x]]

Del(d, k) == [x \in DOMAIN d \ {k} |-> d[x]]

RECURSIVE SortedInts(_)
SortedInts(S) ==
    IF S = {} THEN <<>>
    ELSE LET m == CHOOSE x \in S : \A y \in S : x <= y
         IN  <<m>> \o SortedInts(S \ {m})

RECURSIVE SortedKeys(_)
SortedKeys(S) ==
    IF S = {} THEN <<>>
    ELSE LET m == CHOOSE x \in S : \A y \in S : int(x) <= int(y)
         IN  <<m>> \o SortedKeys(S \ {m})

Absent == [kind |-> "absent", data |-> EmptyDict]

Malformed == [kind |-> "malformed", data |-> EmptyDict]

JsonFile(d) == [kind |-> "json", data |-> d]

Entry(box, class, track_id) == [box |-> box, class |-> class, track_id |-> track_id]

Box(x1, y1, x2, y2) == <<Q(x1), Q(y1), Q(x2), Q(y2)>>

QRectF(x, y, w, h) == [x |-> x, y |-> y, w |-> w, h |-> h]

left(rect) == rect.x

top(rect) == rect.y

right(rect) == QAdd(rect.x, rect.w)

bottom(rect) == QAdd(rect.y, rect.h)

RectOfBox(b) == QRectF(b[1], b[2], QSub(b[3], b[1]), QSub(b[4], b[2]))

----------------------------------------------------------------------------
(* AnnotationManager: the frame store *)

NewManager ==
    [boxes |-> EmptyDict,
     next_id |-> 0,
     next_suggestion_track_id |-> 1,
     current_json_path |-> NoPath,
     folder_unique_tracks |-> EmptyDict]

RECURSIVE LoadEntries(_, _, _, _)
LoadEntries(data, keys, boxes, next_id) ==
    IF keys = <<>> THEN [boxes |-> boxes, next_id |-> next_id]
    ELSE LET key == Head(keys)
             box_id == int(key)
         IN  LoadEntries(data, Tail(keys), Put(boxes, box_id, data[key]),
                         IF box_id >= next_id THEN box_id + 1 ELSE next_id)

load_from_file_merge(m, d, filepath) ==
    LET m0 == [m EXCEPT !.current_json_path = filepath]
    IN  IF d[filepath].kind = "absent" THEN m0
        ELSE IF d[filepath].kind = "malformed" THEN m0
        ELSE LET r == LoadEntries(d[filepath].data,
                                  SortedKeys(DOMAIN d[filepath].data),
                                  m.boxes, m.next_id)
             IN  [m0 EXCEPT !.boxes = r.boxes, !.next_id = r.next_id]

load_from_file(m, d, filepath) ==
    LET m0 == [m EXCEPT !.boxes = EmptyDict,
                        !.current_json_path = filepath,
                        !.next_id = 0]
    IN  IF d[filepath].kind = "absent" THEN m0
        ELSE IF d[filepath].kind = "malformed" THEN m0
        ELSE LET r == LoadEntries(d[filepath].data,
                                  SortedKeys(DOMAIN d[filepath].data),
                                  EmptyDict, 0)
             IN  [m0 EXCEPT !.boxes = r.boxes, !.next_id = r.next_id]

save_to_file_positive(m, d) ==
    IF m.current_json_path = NoPath THEN d
    ELSE LET kept == {bid \in DOMAIN m.boxes : m.boxes[bid].class > 0}
             save_data == [k \in {str(bid) : bid \in kept} |-> m.boxes[int(k)]]
         IN  [d EXCEPT ![m.current_json_path] = JsonFile(save_data)]

save_to_file(m, d) ==
    IF m.current_json_path = NoPath THEN d
    ELSE LET kept == {bid \in DOMAIN m.boxes : m.boxes[bid].class # -1}
             save_data == [k \in {str(bid) : bid \in kept} |-> m.boxes[int(k)]]
         IN  [d EXCEPT ![m.current_json_path] = JsonFile(save_data)]

add_box_recount(m, rect, class_id, track_id) ==
    LET box_id == IF DOMAIN m.boxes = {} THEN 0
                  ELSE 1 + CHOOSE x \in DOMAIN m.boxes : \A y \in DOMAIN m.boxes : y <= x
        m1 == [m EXCEPT !.next_id = box_id + 1,
                        !.boxes = Put(m.boxes, box_id,
                                      Entry(<<left(rect), top(rect), right(rect), bottom(rect)>>,
                                            class_id, track_id))]
        m2 == IF track_id > 0
              THEN [m1 EXCEPT !.folder_unique_tracks =
                                  Put(m1.folder_unique_tracks, track_id, class_id),
                              !.next_suggestion_track_id =
                                  IF track_id >= m1.next_suggestion_track_id
                                  THEN track_id + 1
                                  ELSE m1.next_suggestion_track_id]
              ELSE m1
    IN  [m |-> m2, ret |-> box_id]

add_box_always(m, rect, class_id, track_id) ==
    LET box_id == m.next_id
        m1 == [m EXCEPT !.next_id = m.next_id + 1,
                        !.boxes = Put(m.boxes, box_id,
                                      Entry(<<left(rect), top(rect), right(rect), bottom(rect)>>,
                                            class_id, track_id))]
        m2 == [m1 EXCEPT !.folder_unique_tracks =
                             Put(m1.folder_unique_tracks, track_id, class_id),
                         !.next_suggestion_track_id =
                             IF track_id >= m1.next_suggestion_track_id
                             THEN track_id + 1
                             ELSE m1.next_suggestion_track_id]
    IN  [m |-> m2, ret |-> box_id]

add_box(m, rect, class_id, track_id) ==
    LET box_id == m.next_id
        m1 == [m EXCEPT !.next_id = m.next_id + 1,
                        !.boxes = Put(m.boxes, box_id,
                                      Entry(<<left(rect), top(rect), right(rect), bottom(rect)>>,
                                            class_id, track_id))]
        m2 == IF track_id > 0
              THEN [m1 EXCEPT !.folder_unique_tracks =
                                  Put(m1.folder_unique_tracks, track_id, class_id),
                              !.next_suggestion_track_id =
                                  IF track_id >= m1.next_suggestion_track_id
                                  THEN track_id + 1
                                  ELSE m1.next_suggestion_track_id]
              ELSE m1
    IN  [m |-> m2, ret |-> box_id]

update_box(m, box_id, rect) ==
    IF box_id \in DOMAIN m.boxes
    THEN [m EXCEPT !.boxes[box_id].box =
                       <<left(rect), top(rect), right(rect), bottom(rect)>>]
    ELSE m

delete_box(m, box_id) ==
    IF box_id \in DOMAIN m.boxes
    THEN [m |-> [m EXCEPT !.boxes = Del(m.boxes, box_id)],
          ret |-> m.boxes[box_id].track_id]
    ELSE [m |-> m, ret |-> None]

----------------------------------------------------------------------------
(* AnnotationManager: the track index *)

listdir(d) == SortedInts({f \in DOMAIN d : d[f].kind # "absent"})

RECURSIVE CacheEntries(_, _, _)
CacheEntries(data, keys, tracks) ==
    IF keys = <<>> THEN tracks
    ELSE LET val == data[Head(keys)]
         IN  CacheEntries(data, Tail(keys), Put(tracks, val.track_id, val.class))

RECURSIVE CacheFiles(_, _, _)
CacheFiles(d, files, tracks) ==
    IF files = <<>> THEN tracks
    ELSE LET file == d[Head(files)]
         IN  CacheFiles(d, Tail(files),
                        IF file.kind = "json"
                        THEN CacheEntries(file.data, SortedKeys(DOMAIN file.data), tracks)
                        ELSE tracks)

rebuild_track_cache_noclear(m, d) ==
    [m EXCEPT !.folder_unique_tracks = CacheFiles(d, listdir(d), m.folder_unique_tracks)]

rebuild_track_cache(m, d) ==
    [m EXCEPT !.folder_unique_tracks = CacheFiles(d, listdir(d), EmptyDict)]

RECURSIVE ScanEntries(_, _, _)
ScanEntries(data, keys, acc) ==
    IF keys = <<>> THEN acc
    ELSE LET entry == data[Head(keys)]
             tid == entry.track_id
         IN  ScanEntries(data, Tail(keys),
                 IF tid > 0
                 THEN [tracks |-> Put(acc.tracks, tid, entry.class),
                       next |-> IF tid >= acc.next THEN tid + 1 ELSE acc.next]
                 ELSE acc)

RECURSIVE ScanFiles(_, _, _)
ScanFiles(d, files, acc) ==
    IF files = <<>> THEN acc
    ELSE LET file == d[Head(files)]
         IN  ScanFiles(d, Tail(files),
                       IF file.kind = "json"
                       THEN ScanEntries(file.data, SortedKeys(DOMAIN file.data), acc)
                       ELSE acc)

scan_folder(m, d) ==
    LET acc == ScanFiles(d, listdir(d), [tracks |-> EmptyDict, next |-> 1])
    IN  [m EXCEPT !.folder_unique_tracks = acc.tracks,
                  !.next_suggestion_track_id = acc.next]

check_track_used_globally_firstfile(track_id, d) ==
    /\ d[0].kind = "json"
    /\ \E k \in DOMAIN d[0].data : d[0].data[k].track_id = track_id

check_track_used_globally(track_id, d) ==
    \E f \in DOMAIN d :
        /\ d[f].kind = "json"
        /\ \E k \in DOMAIN d[f].data : d[f].data[k].track_id = track_id

----------------------------------------------------------------------------
(* AnnotationManager: interpolation *)

HasTrack(data, track_id) == \E k \in DOMAIN data : data[k].track_id = track_id

FirstWithTrack(data, track_id) ==
    LET ks == {k \in DOMAIN data : data[k].track_id = track_id}
    IN  data[CHOOSE k \in ks : \A j \in ks : int(k) <= int(j)]

GatherKeyframes_anytrack(target_track_id, d, image_files) ==
    LET found == {idx \in 0 .. image_files - 1 :
                     d[idx].kind = "json" /\ DOMAIN d[idx].data # {}}
    IN  [idx \in found |->
            LET entry == d[idx].data[SortedKeys(DOMAIN d[idx].data)[1]]
            IN  [box |-> entry.box, class |-> entry.class]]

GatherKeyframes(target_track_id, d, image_files) ==
    LET found == {idx \in 0 .. image_files - 1 :
                     d[idx].kind = "json" /\ HasTrack(d[idx].data, target_track_id)}
    IN  [idx \in found |->
            LET entry == FirstWithTrack(d[idx].data, target_track_id)
            IN  [box |-> entry.box, class |-> entry.class]]

MaxKey_length(data) == Cardinality(DOMAIN data) - 1

MaxKey(data) == CHOOSE n \in {int(k) : k \in DOMAIN data} :
                    \A k \in DOMAIN data : int(k) <= n

Lerp_floordiv(s, e, nsteps, step) ==
    LET diff == QSub(e, s)
    IN  QAdd(s, QMul(Q((diff[1] \div diff[2]) \div nsteps), Q(step)))

Lerp(s, e, nsteps, step) == QAdd(s, QMul(QDiv(QSub(e, s), Q(nsteps)), Q(step)))

RECURSIVE FillGaps(_, _, _, _, _, _, _)
FillGaps(d, target_track_id, keyframes, sorted_indices, i, step, count) ==
    IF i > Len(sorted_indices) - 1
    THEN [disk |-> d, ret |-> count, raised |-> FALSE]
    ELSE
      LET start_idx == sorted_indices[i]
          end_idx == sorted_indices[i + 1]
          nsteps == end_idx - start_idx
      IN  IF step >= nsteps
          THEN FillGaps(d, target_track_id, keyframes, sorted_indices, i + 1, 1, count)
          ELSE
            LET sb == keyframes[start_idx].box
                eb == keyframes[end_idx].box
                class_id == keyframes[start_idx].class
                target_idx == start_idx + step
                file == d[target_idx]
                file_data == IF file.kind = "absent" THEN EmptyDict ELSE file.data
                new_bid == IF DOMAIN file_data = {} THEN 0 ELSE MaxKey(file_data) + 1
                new_entry == Entry(<<Lerp(sb[1], eb[1], nsteps, step),
                                     Lerp(sb[2], eb[2], nsteps, step),
                                     Lerp(sb[3], eb[3], nsteps, step),
                                     Lerp(sb[4], eb[4], nsteps, step)>>,
                                   class_id, target_track_id)
            IN  IF file.kind = "malformed"
                THEN [disk |-> d, ret |-> None, raised |-> TRUE]
                ELSE IF HasTrack(file_data, target_track_id)
                THEN FillGaps(d, target_track_id, keyframes, sorted_indices, i, step + 1, count)
                ELSE FillGaps([d EXCEPT ![target_idx] =
                                   JsonFile(Put(file_data, str(new_bid), new_entry))],
                              target_track_id, keyframes, sorted_indices, i, step + 1,
                              count + 1)

interpolate_track_firstpair(target_track_id, d, image_files) ==
    LET keyframes == GatherKeyframes(target_track_id, d, image_files)
        sorted_indices == SortedInts(DOMAIN keyframes)
    IN  IF Len(sorted_indices) < 2
        THEN [disk |-> d, ret |-> 0, raised |-> FALSE]
        ELSE FillGaps(d, target_track_id, keyframes, SubSeq(sorted_indices, 1, 2), 1, 1, 0)

interpolate_track(target_track_id, d, image_files) ==
    LET keyframes == GatherKeyframes(target_track_id, d, image_files)
        sorted_indices == SortedInts(DOMAIN keyframes)
    IN  IF Len(sorted_indices) < 2
        THEN [disk |-> d, ret |-> 0, raised |-> FALSE]
        ELSE FillGaps(d, target_track_id, keyframes, sorted_indices, 1, 1, 0)

----------------------------------------------------------------------------
(* AnnotationManager: folder-wide identity edits *)

Matching(file, track_id) ==
    IF file.kind = "json"
    THEN {k \in DOMAIN file.data : file.data[k].track_id = track_id}
    ELSE {}

RECURSIVE RenameFiles_countfiles(_, _, _, _, _)
RenameFiles_countfiles(d, files, old_tid, new_tid, count) ==
    IF files = <<>> THEN [disk |-> d, ret |-> count]
    ELSE LET path == Head(files)
             hit == Matching(d[path], old_tid)
             data == [k \in DOMAIN d[path].data |->
                         IF k \in hit
                         THEN [d[path].data[k] EXCEPT !.track_id = new_tid]
                         ELSE d[path].data[k]]
             changed == hit # {}
         IN  RenameFiles_countfiles(
                 IF changed THEN [d EXCEPT ![path] = JsonFile(data)] ELSE d,
                 Tail(files), old_tid, new_tid, count + (IF changed THEN 1 ELSE 0))

RECURSIVE RenameFiles(_, _, _, _, _)
RenameFiles(d, files, old_tid, new_tid, count) ==
    IF files = <<>> THEN [disk |-> d, ret |-> count]
    ELSE LET path == Head(files)
             hit == Matching(d[path], old_tid)
             data == [k \in DOMAIN d[path].data |->
                         IF k \in hit
                         THEN [d[path].data[k] EXCEPT !.track_id = new_tid]
                         ELSE d[path].data[k]]
             changed == hit # {}
         IN  RenameFiles(IF changed THEN [d EXCEPT ![path] = JsonFile(data)] ELSE d,
                         Tail(files), old_tid, new_tid, count + Cardinality(hit))

update_track_id_globally(old_tid, new_tid, d) ==
    IF old_tid = new_tid THEN [disk |-> d, ret |-> 0]
    ELSE RenameFiles(d, listdir(d), old_tid, new_tid, 0)

RECURSIVE ReclassFiles_countfiles(_, _, _, _, _)
ReclassFiles_countfiles(d, files, track_id, new_class, count) ==
    IF files = <<>> THEN [disk |-> d, ret |-> count]
    ELSE LET path == Head(files)
             hit == Matching(d[path], track_id)
             data == [k \in DOMAIN d[path].data |->
                         IF k \in hit
                         THEN [d[path].data[k] EXCEPT !.class = new_class]
                         ELSE d[path].data[k]]
             changed == hit # {}
         IN  ReclassFiles_countfiles(IF changed THEN [d EXCEPT ![path] = JsonFile(data)] ELSE d,
                                     Tail(files), track_id, new_class,
                                     count + (IF changed THEN 1 ELSE 0))

RECURSIVE ReclassFiles(_, _, _, _, _)
ReclassFiles(d, files, track_id, new_class, count) ==
    IF files = <<>> THEN [disk |-> d, ret |-> count]
    ELSE LET path == Head(files)
             hit == Matching(d[path], track_id)
             data == [k \in DOMAIN d[path].data |->
                         IF k \in hit
                         THEN [d[path].data[k] EXCEPT !.class = new_class]
                         ELSE d[path].data[k]]
             changed == hit # {}
         IN  ReclassFiles(IF changed THEN [d EXCEPT ![path] = JsonFile(data)] ELSE d,
                          Tail(files), track_id, new_class, count + Cardinality(hit))

update_class_globally(track_id, new_class, d) ==
    ReclassFiles(d, listdir(d), track_id, new_class, 0)

RECURSIVE SwapFiles_twopass(_, _, _, _, _)
SwapFiles_twopass(d, files, id1, id2, count) ==
    IF files = <<>> THEN [disk |-> d, ret |-> count]
    ELSE LET path == Head(files)
             hit1 == Matching(d[path], id1)
             hit2 == Matching(d[path], id2)
             data == [k \in DOMAIN d[path].data |->
                         LET current_id == d[path].data[k].track_id
                         IN  IF current_id = id1 \/ current_id = id2
                             THEN [d[path].data[k] EXCEPT !.track_id = id1]
                             ELSE d[path].data[k]]
             changed == hit1 \cup hit2 # {}
         IN  SwapFiles_twopass(
                 IF changed THEN [d EXCEPT ![path] = JsonFile(data)] ELSE d,
                 Tail(files), id1, id2,
                 count + Cardinality(hit1) + Cardinality(hit2))

RECURSIVE SwapFiles_sequential(_, _, _, _, _)
SwapFiles_sequential(d, files, id1, id2, count) ==
    IF files = <<>> THEN [disk |-> d, ret |-> count]
    ELSE LET path == Head(files)
             hit1 == Matching(d[path], id1)
             hit2 == Matching(d[path], id2)
             data == [k \in DOMAIN d[path].data |->
                         LET current_id == d[path].data[k].track_id
                         IN  IF current_id = id1 \/ current_id = id2
                             THEN [d[path].data[k] EXCEPT !.track_id = id1]
                             ELSE d[path].data[k]]
             changed == hit1 \cup hit2 # {}
         IN  SwapFiles_sequential(IF changed THEN [d EXCEPT ![path] = JsonFile(data)] ELSE d,
                                  Tail(files), id1, id2,
                                  count + 2 * Cardinality(hit1) + Cardinality(hit2))

RECURSIVE SwapFiles(_, _, _, _, _)
SwapFiles(d, files, id1, id2, count) ==
    IF files = <<>> THEN [disk |-> d, ret |-> count]
    ELSE LET path == Head(files)
             hit1 == Matching(d[path], id1)
             hit2 == Matching(d[path], id2)
             data == [k \in DOMAIN d[path].data |->
                         LET current_id == d[path].data[k].track_id
                         IN  IF current_id = id1
                             THEN [d[path].data[k] EXCEPT !.track_id = id2]
                             ELSE IF current_id = id2
                             THEN [d[path].data[k] EXCEPT !.track_id = id1]
                             ELSE d[path].data[k]]
             changed == hit1 \cup hit2 # {}
         IN  SwapFiles(IF changed THEN [d EXCEPT ![path] = JsonFile(data)] ELSE d,
                       Tail(files), id1, id2,
                       count + Cardinality(hit1) + Cardinality(hit2))

swap_track_id_globally(id1, id2, d) ==
    IF id1 = id2 THEN [disk |-> d, ret |-> 0]
    ELSE SwapFiles(d, listdir(d), id1, id2, 0)

----------------------------------------------------------------------------
(* MainWindow: detection merge *)

calculate_iou_overA(boxA, boxB) ==
    LET xA == QMax(boxA[1], boxB[1])
        yA == QMax(boxA[2], boxB[2])
        xB == QMin(boxA[3], boxB[3])
        yB == QMin(boxA[4], boxB[4])
        interArea == QMul(QMax(Q(0), QSub(xB, xA)), QMax(Q(0), QSub(yB, yA)))
        boxAArea == QMul(QSub(boxA[3], boxA[1]), QSub(boxA[4], boxA[2]))
    IN  QDiv(interArea, boxAArea)

calculate_iou(boxA, boxB) ==
    LET xA == QMax(boxA[1], boxB[1])
        yA == QMax(boxA[2], boxB[2])
        xB == QMin(boxA[3], boxB[3])
        yB == QMin(boxA[4], boxB[4])
        interArea == QMul(QMax(Q(0), QSub(xB, xA)), QMax(Q(0), QSub(yB, yA)))
        boxAArea == QMul(QSub(boxA[3], boxA[1]), QSub(boxA[4], boxA[2]))
        boxBArea == QMul(QSub(boxB[3], boxB[1]), QSub(boxB[4], boxB[2]))
    IN  QDiv(interArea, QSub(QAdd(boxAArea, boxBArea), interArea))

DuplicateIoU == <<1, 2>>

NmsIoU == <<1, 2>>

InheritIoU_half == <<1, 2>>

InheritIoU == <<3, 10>>

Values(dict) == [i \in 1 .. Cardinality(DOMAIN dict) |-> dict[SortedInts(DOMAIN dict)[i]]]

FileValues(data) == [i \in 1 .. Cardinality(DOMAIN data) |-> data[SortedKeys(DOMAIN data)[i]]]

UniqueDetections_anyclass(detections, existing_boxes) ==
    LET is_duplicate(det) ==
            \E e \in 1 .. Len(existing_boxes) :
                QLess(DuplicateIoU, calculate_iou(det.box, existing_boxes[e].box))
        F[i \in 0 .. Len(detections)] ==
            IF i = 0 THEN <<>>
            ELSE IF is_duplicate(detections[i]) THEN F[i - 1]
            ELSE Append(F[i - 1], detections[i])
    IN  F[Len(detections)]

UniqueDetections(detections, existing_boxes) ==
    LET is_duplicate(det) ==
            \E e \in 1 .. Len(existing_boxes) :
                /\ QLess(DuplicateIoU, calculate_iou(det.box, existing_boxes[e].box))
                /\ det.class = existing_boxes[e].class
        F[i \in 0 .. Len(detections)] ==
            IF i = 0 THEN <<>>
            ELSE IF is_duplicate(detections[i]) THEN F[i - 1]
            ELSE Append(F[i - 1], detections[i])
    IN  F[Len(detections)]

RECURSIVE NmsInner(_, _, _, _)
NmsInner(detections, i, j, indices_to_drop) ==
    IF j > Len(detections) THEN indices_to_drop
    ELSE IF j \in indices_to_drop
    THEN NmsInner(detections, i, j + 1, indices_to_drop)
    ELSE NmsInner(detections, i, j + 1,
                  IF QLess(NmsIoU, calculate_iou(detections[i].box, detections[j].box))
                  THEN indices_to_drop \cup {j}
                  ELSE indices_to_drop)

RECURSIVE NmsOuter_all(_, _, _)
NmsOuter_all(detections, i, indices_to_drop) ==
    IF i > Len(detections) THEN indices_to_drop
    ELSE NmsOuter_all(detections, i + 1, NmsInner(detections, i, i + 1, indices_to_drop))

RECURSIVE NmsOuter(_, _, _)
NmsOuter(detections, i, indices_to_drop) ==
    IF i > Len(detections) THEN indices_to_drop
    ELSE IF i \in indices_to_drop THEN NmsOuter(detections, i + 1, indices_to_drop)
    ELSE NmsOuter(detections, i + 1, NmsInner(detections, i, i + 1, indices_to_drop))

FinalDetections(detections) ==
    LET indices_to_drop == NmsOuter(detections, 1, {})
        F[k \in 0 .. Len(detections)] ==
            IF k = 0 THEN <<>>
            ELSE IF k \in indices_to_drop THEN F[k - 1] ELSE Append(F[k - 1], detections[k])
    IN  F[Len(detections)]

PrevFrameBoxes(d, idx) ==
    IF idx > 0 /\ d[idx - 1].kind = "json" THEN FileValues(d[idx - 1].data) ELSE <<>>

RECURSIVE BestMatch(_, _, _, _)
BestMatch(new_box, prev_frame_boxes, p, best) ==
    IF p > Len(prev_frame_boxes) THEN best
    ELSE LET prev == prev_frame_boxes[p]
             iou == calculate_iou(new_box, prev.box)
         IN  BestMatch(new_box, prev_frame_boxes, p + 1,
                       IF QLess(best.iou, iou)
                       THEN [iou |-> iou, id |-> prev.track_id, class |-> prev.class]
                       ELSE best)

RECURSIVE CreateBoxes(_, _, _, _, _)
CreateBoxes(m, final_detections, n, prev_frame_boxes, allocated) ==
    IF n > Len(final_detections) THEN [m |-> m, allocated |-> allocated]
    ELSE LET item == final_detections[n]
             best == BestMatch(item.box, prev_frame_boxes, 1,
                               [iou |-> Q(0), id |-> -1, class |-> -1])
             inherit == QLess(InheritIoU, best.iou)
             assigned_track_id == IF inherit THEN best.id ELSE m.next_suggestion_track_id
             new_class == IF inherit THEN best.class ELSE item.class
             m1 == IF inherit THEN m
                   ELSE [m EXCEPT !.next_suggestion_track_id = @ + 1]
         IN  CreateBoxes(add_box(m1, RectOfBox(item.box), new_class, assigned_track_id).m,
                         final_detections, n + 1, prev_frame_boxes,
                         IF inherit THEN allocated ELSE Append(allocated, assigned_track_id))

MergeDetections(m, d, idx, detections) ==
    LET unique_detections == UniqueDetections(detections, Values(m.boxes))
        final_detections == FinalDetections(unique_detections)
    IN  IF detections = <<>> \/ unique_detections = <<>>
        THEN [m |-> m, disk |-> d, refreshed |-> FALSE, final |-> <<>>, allocated |-> <<>>]
        ELSE LET r == CreateBoxes(m, final_detections, 1, PrevFrameBoxes(d, idx), <<>>)
             IN  [m |-> r.m, disk |-> save_to_file(r.m, d), refreshed |-> TRUE,
                  final |-> final_detections, allocated |-> r.allocated]

----------------------------------------------------------------------------
(* Initial state: the objects as constructed, over some record folder *)

Op(name, arg, ret) ==
    [op |-> name, arg |-> arg, ret |-> ret, prev |-> <<last.op, last.arg>>]

NoWrite == [pc |-> "closed", path |-> NoPath, data |-> Absent]

InitOn(folders) ==
    /\ disk \in folders
    /\ manager = NewManager
    /\ frame_files = 0
    /\ current_frame_idx = -1
    /\ list_folder_objects = {}
    /\ btn_yolo = TRUE
    /\ yolo_thread = [pc |-> "none", image_path |-> NoPath, results |-> <<>>]
    /\ pending_draw_data = NoDraw
    /\ issued = {}
    /\ snapshot = disk
    /\ last = [op |-> "init", arg |-> <<>>, ret |-> None, prev |-> <<"init", <<>>>>]
    /\ steps = 0
    /\ writing = NoWrite

window_vars == <<frame_files, current_frame_idx, list_folder_objects, btn_yolo,
                 yolo_thread, pending_draw_data>>

store_unused == <<window_vars, snapshot>>

----------------------------------------------------------------------------
(* The frame store on its own: any caller of load, add, update, delete, save *)

StoreFiles ==
    { Absent,
      Malformed,
      JsonFile([k \in {<<0>>} |-> Entry(Box(0, 0, 10, 10), 0, 1)]),
      JsonFile([k \in {<<0>>, <<2>>} |->
                   IF k = <<0>> THEN Entry(Box(0, 0, 10, 10), 0, 1)
                                ELSE Entry(Box(20, 0, 30, 10), 1, 2)]) }

StoreFolders == [0 .. 1 -> StoreFiles]

StoreRects == { QRectF(Q(2), Q(0), Q(10), Q(10)) }

StoreClasses == {-2, -1, 0}

StoreTracks == {0, 2}

InitStore == InitOn(StoreFolders)

StoreLoad(f) ==
    /\ steps < MaxStoreSteps
    /\ manager' = load_from_file(manager, disk, f)
    /\ issued' = DOMAIN manager'.boxes
    /\ last' = Op("load_from_file", <<f>>, None)
    /\ steps' = steps + 1
    /\ UNCHANGED <<writing, disk, store_unused>>

StoreSave ==
    /\ steps < MaxStoreSteps
    /\ disk' = save_to_file(manager, disk)
    /\ last' = Op("save_to_file", <<>>, None)
    /\ steps' = steps + 1
    /\ UNCHANGED <<writing, manager, issued, store_unused>>

StoreAdd(rect, class_id, track_id) ==
    /\ steps < MaxStoreSteps
    /\ LET r == add_box(manager, rect, class_id, track_id)
       IN  /\ manager' = r.m
           /\ issued' = issued \cup {r.ret}
           /\ last' = Op("add_box", <<class_id, track_id>>, r.ret)
    /\ steps' = steps + 1
    /\ UNCHANGED <<writing, disk, store_unused>>

StoreUpdate(box_id, rect) ==
    /\ steps < MaxStoreSteps
    /\ manager' = update_box(manager, box_id, rect)
    /\ last' = Op("update_box", <<box_id>>, None)
    /\ steps' = steps + 1
    /\ UNCHANGED <<writing, disk, issued, store_unused>>

StoreDelete(box_id) ==
    /\ steps < MaxStoreSteps
    /\ LET r == delete_box(manager, box_id)
       IN  /\ manager' = r.m
           /\ last' = Op("delete_box", <<box_id>>, r.ret)
    /\ steps' = steps + 1
    /\ UNCHANGED <<writing, disk, issued, store_unused>>

NextStore ==
    \/ \E f \in DOMAIN disk : StoreLoad(f)
    \/ StoreSave
    \/ \E rect \in StoreRects, c \in StoreClasses, t \in StoreTracks : StoreAdd(rect, c, t)
    \/ \E b \in DOMAIN manager.boxes \cup {manager.next_id}, rect \in StoreRects :
           StoreUpdate(b, rect)
    \/ \E b \in DOMAIN manager.boxes \cup {manager.next_id} : StoreDelete(b)

SpecStore == InitStore /\ [][NextStore]_vars

----------------------------------------------------------------------------
(* A write of a frame file as the file system sees it: open(path, 'w')      *)
(* creates or truncates the file, json.dump then fills it, and the process  *)
(* may be stopped in between. An empty or partly written file is one that   *)
(* json.load rejects.                                                       *)

WriteOpen ==
    /\ steps < MaxStoreSteps
    /\ writing.pc # "open"
    /\ manager.current_json_path # NoPath
    /\ writing' = [pc |-> "open", path |-> manager.current_json_path,
                   data |-> save_to_file(manager, disk)[manager.current_json_path]]
    /\ disk' = [disk EXCEPT ![manager.current_json_path] = Malformed]
    /\ snapshot' = disk
    /\ last' = Op("open", <<manager.current_json_path>>, None)
    /\ steps' = steps + 1
    /\ UNCHANGED <<manager, issued, window_vars>>

WriteDump ==
    /\ writing.pc = "open"
    /\ disk' = [disk EXCEPT ![writing.path] = writing.data]
    /\ writing' = [writing EXCEPT !.pc = "closed"]
    /\ last' = Op("save_to_file", <<>>, None)
    /\ UNCHANGED <<manager, issued, snapshot, steps, window_vars>>

Interrupt ==
    /\ writing.pc = "open"
    /\ writing' = [writing EXCEPT !.pc = "interrupted"]
    /\ manager' = NewManager
    /\ issued' = {}
    /\ last' = Op("interrupted", <<writing.path>>, None)
    /\ UNCHANGED <<disk, snapshot, steps, window_vars>>

NextWrite ==
    \/ \E f \in DOMAIN disk : writing.pc # "open" /\ StoreLoad(f)
    \/ \E rect \in StoreRects, c \in StoreClasses, t \in StoreTracks :
           writing.pc # "open" /\ StoreAdd(rect, c, t)
    \/ WriteOpen
    \/ WriteDump
    \/ Interrupt

SpecWrite == InitStore /\ [][NextWrite]_vars

----------------------------------------------------------------------------
(* calculate_iou on its own: any caller, any two rectangles of the grid *)

IoUCoord == 3

IoURects ==
    {Box(x1, y1, x2, y2) : x1 \in 0 .. IoUCoord - 1, y1 \in 0 .. IoUCoord - 1,
                           x2 \in 1 .. IoUCoord, y2 \in 1 .. IoUCoord}

IoUBoxes == {b \in IoURects : QLess(b[1], b[3]) /\ QLess(b[2], b[4])}

InitIoU == InitOn({[f \in {0} |-> Absent]})

CalculateIoU(boxA, boxB) ==
    /\ last.op = "init"
    /\ last' = [op |-> "calculate_iou", arg |-> <<boxA, boxB>>,
                ret |-> calculate_iou(boxA, boxB), prev |-> <<"init", <<>>>>]
    /\ UNCHANGED <<writing, manager, disk, issued, snapshot, steps, window_vars>>

NextIoU == \E boxA, boxB \in IoUBoxes : CalculateIoU(boxA, boxB)

SpecIoU == InitIoU /\ [][NextIoU]_vars

----------------------------------------------------------------------------
(* The interpolation engine on its own: interpolate_track over some folder *)

FrameCount(d) == Cardinality(DOMAIN d)

BoxA == Box(0, 0, 10, 10)

BoxB == Box(30, 0, 40, 10)

BoxC == Box(31, 2, 40, 12)

BoxD == Box(5, 5, 20, 20)

Dict1(k1, v1) == [k \in {k1} |-> v1]

Dict2(k1, v1, k2, v2) == [k \in {k1, k2} |-> IF k = k1 THEN v1 ELSE v2]

InterpFiles ==
    { Absent,
      Malformed,
      JsonFile(Dict1(<<0>>, Entry(BoxA, 0, 1))),
      JsonFile(Dict2(<<0>>, Entry(BoxD, 1, 2), <<1>>, Entry(BoxC, 1, 1))),
      JsonFile(Dict1(<<1>>, Entry(BoxD, 1, 2))),
      JsonFile(Dict2(<<0>>, Entry(BoxB, 0, 1), <<3>>, Entry(BoxA, 1, 1))) }

ExampleFiles == { Absent, JsonFile(Dict1(<<1>>, Entry(BoxD, 1, 2))) }

ExampleFolders ==
    { [i \in 0 .. 5 |->
          IF i = 2 THEN JsonFile(Dict1(<<0>>, Entry(BoxA, 0, 1)))
          ELSE IF i = 5 THEN JsonFile(Dict1(<<0>>, Entry(BoxB, 0, 1)))
          ELSE g[i]] : g \in [{0, 1, 3, 4} -> ExampleFiles] }

InterpFolders == [0 .. InterpFrames - 1 -> InterpFiles] \cup ExampleFolders

InterpTracks == {1, 2, 3}

InitInterp == InitOn(InterpFolders)

Interpolate(track_id) ==
    /\ steps < MaxInterpSteps
    /\ LET r == interpolate_track(track_id, disk, FrameCount(disk))
       IN  /\ disk' = r.disk
           /\ last' = Op("interpolate_track", <<track_id>>, r.ret)
    /\ snapshot' = disk
    /\ steps' = steps + 1
    /\ UNCHANGED <<writing, manager, issued, window_vars>>

NextInterp == \E t \in InterpTracks : Interpolate(t)

SpecInterp == InitInterp /\ [][NextInterp]_vars

----------------------------------------------------------------------------
(* The identity mutator on its own: rename, reclassify and swap over a folder *)

MutatorFiles ==
    { Absent,
      Malformed,
      JsonFile(Dict1(<<0>>, Entry(BoxA, 0, 1))),
      JsonFile(Dict2(<<0>>, Entry(BoxA, 0, 1), <<1>>, Entry(BoxB, 1, 2))),
      JsonFile(Dict2(<<0>>, Entry(BoxD, 1, 1), <<2>>, Entry(BoxB, 0, 1))),
      JsonFile(Dict2(<<1>>, Entry(BoxD, 1, 2), <<2>>, Entry(BoxB, 0, 0))) }

MutatorFolders == [0 .. MutatorFrames - 1 -> MutatorFiles]

MutatorOld == {1, 2}

MutatorNew == {1, 2, 3}

MutatorClasses == {0, 1}

InitMutator == InitOn(MutatorFolders)

Rename(old_tid, new_tid) ==
    /\ steps < MaxMutatorSteps
    /\ LET r == update_track_id_globally(old_tid, new_tid, disk)
       IN  /\ disk' = r.disk
           /\ last' = Op("update_track_id_globally", <<old_tid, new_tid>>, r.ret)
    /\ snapshot' = disk
    /\ steps' = steps + 1
    /\ UNCHANGED <<writing, manager, issued, window_vars>>

Reclassify(track_id, new_class) ==
    /\ steps < MaxMutatorSteps
    /\ LET r == update_class_globally(track_id, new_class, disk)
       IN  /\ disk' = r.disk
           /\ last' = Op("update_class_globally", <<track_id, new_class>>, r.ret)
    /\ snapshot' = disk
    /\ steps' = steps + 1
    /\ UNCHANGED <<writing, manager, issued, window_vars>>

Swap(id1, id2) ==
    /\ steps < MaxMutatorSteps
    /\ LET r == swap_track_id_globally(id1, id2, disk)
       IN  /\ disk' = r.disk
           /\ last' = Op("swap_track_id_globally", <<id1, id2>>, r.ret)
    /\ snapshot' = disk
    /\ steps' = steps + 1
    /\ UNCHANGED <<writing, manager, issued, window_vars>>

NextMutator ==
    \/ \E o \in MutatorOld, n \in MutatorNew : Rename(o, n)
    \/ \E t \in MutatorOld, c \in MutatorClasses : Reclassify(t, c)
    \/ \E a \in MutatorOld, b \in MutatorNew : Swap(a, b)

SpecMutator == InitMutator /\ [][NextMutator]_vars

----------------------------------------------------------------------------
(* The application: the MainWindow handlers over one image sequence.  steps  *)
(* counts the user's operations; the detection worker's own steps are free.  *)

BoxA2 == Box(2, 0, 12, 10)

BoxA4 == Box(4, 0, 14, 10)

MainFolders ==
    { [i \in 0 .. 2 |-> Absent],
      [i \in 0 .. 2 |->
          IF i = 0 THEN JsonFile(Dict1(<<0>>, Entry(BoxA, 0, 1)))
          ELSE IF i = 1 THEN Absent
          ELSE JsonFile(Dict1(<<0>>, Entry(BoxB, 0, 1)))],
      [i \in 0 .. 2 |->
          IF i = 0 THEN JsonFile(Dict2(<<0>>, Entry(BoxA, 0, 1), <<1>>, Entry(BoxB, 1, 2)))
          ELSE IF i = 1 THEN JsonFile(Dict1(<<0>>, Entry(BoxA, 1, 2)))
          ELSE Absent],
      [i \in 0 .. 2 |->
          IF i = 0 THEN JsonFile(Dict1(<<0>>, Entry(BoxA, 0, 1)))
          ELSE IF i = 1 THEN Malformed
          ELSE JsonFile(Dict1(<<0>>, Entry(BoxB, 1, 1)))],
      [i \in 0 .. 2 |->
          IF i = 0 THEN JsonFile(Dict1(<<0>>, Entry(BoxA, 1, 0)))
          ELSE IF i = 1 THEN JsonFile(Dict1(<<0>>, Entry(BoxA2, 0, 2)))
          ELSE Absent] }

ClassIds == {0, 1}

TrackInputs == {1, 2, 3}

DrawRects == { RectOfBox(BoxA2), RectOfBox(BoxB) }

Det(box, class) == [box |-> box, class |-> class]

DetectionResults ==
    { <<>>,
      <<Det(BoxA2, 0), Det(BoxA4, 0)>>,
      <<Det(BoxA4, 1), Det(BoxB, 0)>> }

Init == InitOn(MainFolders)

refresh_lists(m) == DOMAIN m.folder_unique_tracks

Done(name, arg, ret, loaded, m) ==
    /\ last' = Op(name, arg, ret)
    /\ steps' = steps + 1
    /\ issued' = IF loaded THEN DOMAIN m.boxes ELSE issued \cup DOMAIN m.boxes

OpenFolder ==
    /\ steps < MaxSteps
    /\ LET m == scan_folder(manager, disk)
           n == FrameCount(disk)
       IN  /\ frame_files' = n
           /\ IF n > 0
              THEN /\ current_frame_idx' = 0
                   /\ manager' = load_from_file(m, disk, 0)
                   /\ list_folder_objects' = refresh_lists(m)
              ELSE /\ manager' = m
                   /\ UNCHANGED <<writing, current_frame_idx, list_folder_objects>>
    /\ Done("open_folder", <<>>, None, TRUE, manager')
    /\ UNCHANGED <<writing, disk, btn_yolo, yolo_thread, pending_draw_data, snapshot>>

Navigate(name, idx) ==
    /\ steps < MaxSteps
    /\ current_frame_idx' = idx
    /\ manager' = load_from_file(manager, disk, idx)
    /\ list_folder_objects' = refresh_lists(manager)
    /\ Done(name, <<idx>>, None, TRUE, manager')
    /\ UNCHANGED <<writing, disk, frame_files, btn_yolo, yolo_thread, pending_draw_data, snapshot>>

NextFrame ==
    /\ current_frame_idx < frame_files - 1
    /\ Navigate("next_frame", current_frame_idx + 1)

PrevFrame ==
    /\ current_frame_idx > 0
    /\ Navigate("prev_frame", current_frame_idx - 1)

PrepareToDraw(name, cid, tid) ==
    /\ steps < MaxSteps
    /\ frame_files # 0
    /\ pending_draw_data' = [class |-> cid, track |-> tid]
    /\ Done(name, <<cid, tid>>, None, FALSE, manager)
    /\ UNCHANGED <<writing, manager, disk, frame_files, current_frame_idx, list_folder_objects,
                   btn_yolo, yolo_thread, snapshot>>

StartCreationFlow(cid, tid) == PrepareToDraw("start_creation_flow", cid, tid)

OnFolderListItemClicked(tid) ==
    /\ tid \in list_folder_objects
    /\ PrepareToDraw("on_folder_list_item_clicked",
                     IF tid \in DOMAIN manager.folder_unique_tracks
                     THEN manager.folder_unique_tracks[tid] ELSE -1,
                     tid)

FinalizeDrawing(rect) ==
    /\ steps < MaxSteps
    /\ pending_draw_data # NoDraw
    /\ LET r == add_box(manager, rect, pending_draw_data.class, pending_draw_data.track)
       IN  /\ manager' = r.m
           /\ disk' = save_to_file(r.m, disk)
           /\ list_folder_objects' = refresh_lists(r.m)
           /\ Done("finalize_drawing",
                   <<pending_draw_data.class, pending_draw_data.track>>, r.ret, FALSE, manager')
    /\ pending_draw_data' = NoDraw
    /\ UNCHANGED <<writing, frame_files, current_frame_idx, btn_yolo, yolo_thread, snapshot>>

CancelDrawing ==
    /\ steps < MaxSteps
    /\ pending_draw_data # NoDraw
    /\ pending_draw_data' = NoDraw
    /\ Done("cancel_drawing", <<>>, None, FALSE, manager)
    /\ UNCHANGED <<writing, manager, disk, frame_files, current_frame_idx, list_folder_objects,
                   btn_yolo, yolo_thread, snapshot>>

MouseRelease(box_id, rect) ==
    /\ steps < MaxSteps
    /\ pending_draw_data = NoDraw
    /\ box_id \in DOMAIN manager.boxes
    /\ manager' = update_box(manager, box_id, rect)
    /\ disk' = save_to_file(manager', disk)
    /\ Done("mouseReleaseEvent", <<box_id>>, None, FALSE, manager')
    /\ UNCHANGED <<writing, frame_files, current_frame_idx, list_folder_objects, btn_yolo,
                   yolo_thread, pending_draw_data, snapshot>>

RECURSIVE DeleteItems(_, _, _)
DeleteItems(m, items, deleted_tracks) ==
    IF items = <<>> THEN [m |-> m, deleted_tracks |-> deleted_tracks]
    ELSE LET r == delete_box(m, Head(items))
         IN  DeleteItems(r.m, Tail(items),
                         IF r.ret # None THEN deleted_tracks \cup {r.ret}
                         ELSE deleted_tracks)

MaxOf(S) == CHOOSE x \in S : \A y \in S : y <= x

DeleteSelectedBox(items) ==
    /\ steps < MaxSteps
    /\ items # {}
    /\ items \subseteq DOMAIN manager.boxes
    /\ LET r == DeleteItems(manager, SortedInts(items), {})
           d1 == save_to_file(r.m, disk)
           extinct == {tid \in r.deleted_tracks :
                          /\ ~ \E b \in DOMAIN r.m.boxes : r.m.boxes[b].track_id = tid
                          /\ ~ check_track_used_globally(tid, d1)}
           tracks == [t \in DOMAIN r.m.folder_unique_tracks \ extinct |->
                         r.m.folder_unique_tracks[t]]
           m2 == [r.m EXCEPT !.folder_unique_tracks = tracks,
                             !.next_suggestion_track_id =
                                 IF DOMAIN tracks # {} THEN MaxOf(DOMAIN tracks) + 1 ELSE 1]
       IN  /\ manager' = m2
           /\ disk' = d1
           /\ list_folder_objects' = refresh_lists(m2)
           /\ Done("delete_selected_box", <<SortedInts(items), r.deleted_tracks>>, None,
                   FALSE, manager')
    /\ UNCHANGED <<writing, frame_files, current_frame_idx, btn_yolo, yolo_thread,
                   pending_draw_data, snapshot>>

EditClassSingle(box_id, new_class_id) ==
    /\ steps < MaxSteps
    /\ box_id \in DOMAIN manager.boxes
    /\ new_class_id # manager.boxes[box_id].class
    /\ LET m == [manager EXCEPT
                    !.boxes[box_id].class = new_class_id,
                    !.folder_unique_tracks =
                        Put(@, manager.boxes[box_id].track_id, new_class_id)]
       IN  /\ manager' = m
           /\ disk' = save_to_file(m, disk)
           /\ list_folder_objects' = refresh_lists(m)
    /\ Done("edit_class_single", <<box_id, new_class_id>>, None, FALSE, manager')
    /\ UNCHANGED <<writing, frame_files, current_frame_idx, btn_yolo, yolo_thread,
                   pending_draw_data, snapshot>>

EditTrackSingle(box_id, val, ok) ==
    /\ steps < MaxSteps
    /\ box_id \in DOMAIN manager.boxes
    /\ LET current_tid == manager.boxes[box_id].track_id
           m1 == IF ok /\ val # current_tid
                 THEN [manager EXCEPT
                          !.boxes[box_id].track_id = val,
                          !.folder_unique_tracks = Put(@, val, manager.boxes[box_id].class)]
                 ELSE manager
           d1 == save_to_file(m1, disk)
           m2 == rebuild_track_cache(m1, d1)
       IN  /\ manager' = m2
           /\ disk' = d1
           /\ list_folder_objects' = refresh_lists(m2)
    /\ Done("edit_track_single", <<box_id, val>>, None, FALSE, manager')
    /\ UNCHANGED <<writing, frame_files, current_frame_idx, btn_yolo, yolo_thread,
                   pending_draw_data, snapshot>>

EditClassGlobal(track_id, new_class_id, ok) ==
    /\ steps < MaxSteps
    /\ track_id \in list_folder_objects
    /\ IF ok
       THEN LET r == update_class_globally(track_id, new_class_id, disk)
                m1 == [manager EXCEPT
                          !.folder_unique_tracks = Put(@, track_id, new_class_id)]
            IN  /\ disk' = r.disk
                /\ manager' = load_from_file(m1, r.disk, current_frame_idx)
                /\ list_folder_objects' = refresh_lists(m1)
                /\ snapshot' = disk
                /\ Done("edit_class_global", <<track_id, new_class_id>>, r.ret, TRUE, manager')
       ELSE /\ UNCHANGED <<writing, manager, disk, list_folder_objects, snapshot>>
            /\ Done("edit_class_global", <<track_id>>, None, FALSE, manager)
    /\ pending_draw_data' = NoDraw
    /\ UNCHANGED <<writing, frame_files, current_frame_idx, btn_yolo, yolo_thread>>

EditTrackGlobal(old_track_id, val, reply) ==
    /\ steps < MaxSteps
    /\ old_track_id \in list_folder_objects
    /\ val # old_track_id
    /\ reply = "No" => check_track_used_globally(val, disk)
    /\ IF reply = "No"
       THEN /\ UNCHANGED <<writing, manager, disk, snapshot>>
            /\ Done("edit_track_global", <<old_track_id, val, 0>>, None, FALSE, manager)
       ELSE LET r == update_track_id_globally(old_track_id, val, disk)
                tracks == manager.folder_unique_tracks
            IN  /\ disk' = r.disk
                /\ manager' =
                       IF old_track_id \in DOMAIN tracks
                       THEN [manager EXCEPT !.folder_unique_tracks =
                                Put(Del(tracks, old_track_id), val, tracks[old_track_id])]
                       ELSE manager
                /\ snapshot' = disk
                /\ Done("edit_track_global", <<old_track_id, val, 1>>, r.ret, FALSE, manager')
    /\ UNCHANGED <<writing, frame_files, current_frame_idx, list_folder_objects, btn_yolo,
                   yolo_thread, pending_draw_data>>

SwapTrackGlobal(id1, id2) ==
    /\ steps < MaxSteps
    /\ id1 \in list_folder_objects
    /\ id1 # id2
    /\ LET r == swap_track_id_globally(id1, id2, disk)
           tracks == manager.folder_unique_tracks
           cls1 == IF id1 \in DOMAIN tracks THEN tracks[id1] ELSE None
           cls2 == IF id2 \in DOMAIN tracks THEN tracks[id2] ELSE None
           t1 == IF cls1 # None THEN Put(tracks, id2, cls1) ELSE Del(tracks, id2)
           t2 == IF cls2 # None THEN Put(t1, id1, cls2) ELSE Del(t1, id1)
           m1 == [manager EXCEPT !.folder_unique_tracks = t2]
       IN  /\ disk' = r.disk
           /\ manager' = load_from_file(m1, r.disk, current_frame_idx)
           /\ list_folder_objects' = refresh_lists(m1)
           /\ Done("swap_track_global", <<id1, id2>>, r.ret, TRUE, manager')
    /\ snapshot' = disk
    /\ pending_draw_data' = NoDraw
    /\ UNCHANGED <<writing, frame_files, current_frame_idx, btn_yolo, yolo_thread>>

RunInterpolation(track_id) ==
    /\ steps < MaxSteps
    /\ track_id \in list_folder_objects
    /\ \E r \in {interpolate_track(track_id, disk, frame_files)} :
           /\ disk' = r.disk
           /\ IF r.raised
              THEN /\ UNCHANGED <<writing, manager, list_folder_objects, pending_draw_data>>
                   /\ Done("run_interpolation", <<track_id>>, None, FALSE, manager)
              ELSE /\ manager' = load_from_file(manager, r.disk, current_frame_idx)
                   /\ list_folder_objects' = refresh_lists(manager)
                   /\ pending_draw_data' = NoDraw
                   /\ Done("run_interpolation", <<track_id>>, r.ret, TRUE, manager')
    /\ snapshot' = disk
    /\ UNCHANGED <<writing, frame_files, current_frame_idx, btn_yolo, yolo_thread>>

RECURSIVE InterpolateAll(_, _, _, _)
InterpolateAll(d, all_ids, image_files, total_added) ==
    IF all_ids = <<>> THEN [disk |-> d, ret |-> total_added, raised |-> FALSE]
    ELSE LET r == interpolate_track(Head(all_ids), d, image_files)
         IN  IF r.raised THEN r
             ELSE InterpolateAll(r.disk, Tail(all_ids), image_files, total_added + r.ret)

RECURSIVE Orders(_)
Orders(S) ==
    IF S = {} THEN {<<>>}
    ELSE UNION {{<<x>> \o p : p \in Orders(S \ {x})} : x \in S}

RunInterpolationAll(all_ids, processed) ==
    /\ steps < MaxSteps
    /\ DOMAIN manager.folder_unique_tracks # {}
    /\ all_ids \in Orders(DOMAIN manager.folder_unique_tracks)
    /\ processed \in 0 .. Len(all_ids)
    /\ \E r \in {InterpolateAll(disk, SubSeq(all_ids, 1, processed), frame_files, 0)} :
           /\ disk' = r.disk
           /\ IF r.raised
              THEN /\ UNCHANGED <<writing, manager, list_folder_objects>>
                   /\ Done("run_interpolation_all", <<all_ids, processed>>, None, FALSE, manager)
              ELSE /\ manager' = load_from_file(manager, r.disk, current_frame_idx)
                   /\ list_folder_objects' = refresh_lists(manager)
                   /\ Done("run_interpolation_all", <<all_ids, processed>>, r.ret, TRUE, manager')
    /\ snapshot' = disk
    /\ UNCHANGED <<writing, frame_files, current_frame_idx, btn_yolo, yolo_thread, pending_draw_data>>

RunYoloDetection ==
    /\ steps < MaxSteps
    /\ btn_yolo
    /\ frame_files # 0
    /\ btn_yolo' = FALSE
    /\ yolo_thread' = [pc |-> "running", image_path |-> current_frame_idx, results |-> <<>>]
    /\ Done("run_yolo_detection", <<current_frame_idx>>, None, FALSE, manager)
    /\ UNCHANGED <<writing, manager, disk, frame_files, current_frame_idx, list_folder_objects,
                   pending_draw_data, snapshot>>

YoloWorkerRun(emits, detected_objects) ==
    /\ yolo_thread.pc = "running"
    /\ yolo_thread' = IF emits THEN [yolo_thread EXCEPT !.pc = "emitted",
                                                      !.results = detected_objects]
                      ELSE [yolo_thread EXCEPT !.pc = "returned"]
    /\ UNCHANGED <<writing, manager, disk, frame_files, current_frame_idx, list_folder_objects,
                   btn_yolo, pending_draw_data, issued, snapshot, last, steps>>

OnYoloFinished ==
    /\ yolo_thread.pc = "emitted"
    /\ btn_yolo' = TRUE
    /\ yolo_thread' = [pc |-> "none", image_path |-> NoPath, results |-> <<>>]
    /\ \E r \in {MergeDetections(manager, disk, current_frame_idx, yolo_thread.results)} :
           /\ manager' = r.m
           /\ disk' = r.disk
           /\ list_folder_objects' =
                  IF r.refreshed THEN refresh_lists(r.m) ELSE list_folder_objects
           /\ last' = Op("on_yolo_finished", <<current_frame_idx, r.allocated>>, Len(r.final))
           /\ issued' = issued \cup DOMAIN r.m.boxes
    /\ UNCHANGED <<writing, frame_files, current_frame_idx, pending_draw_data, snapshot, steps>>

Next ==
    \/ OpenFolder
    \/ NextFrame
    \/ PrevFrame
    \/ \E cid \in ClassIds, tid \in TrackInputs : StartCreationFlow(cid, tid)
    \/ \E tid \in list_folder_objects : OnFolderListItemClicked(tid)
    \/ \E rect \in DrawRects : FinalizeDrawing(rect)
    \/ CancelDrawing
    \/ \E b \in DOMAIN manager.boxes, rect \in DrawRects : MouseRelease(b, rect)
    \/ \E items \in SUBSET DOMAIN manager.boxes : DeleteSelectedBox(items)
    \/ \E b \in DOMAIN manager.boxes, c \in ClassIds : EditClassSingle(b, c)
    \/ \E b \in DOMAIN manager.boxes, val \in TrackInputs : EditTrackSingle(b, val, TRUE)
    \/ \E b \in DOMAIN manager.boxes : EditTrackSingle(b, manager.boxes[b].track_id, FALSE)
    \/ \E t \in list_folder_objects, c \in ClassIds : EditClassGlobal(t, c, TRUE)
    \/ \E t \in list_folder_objects : EditClassGlobal(t, None, FALSE)
    \/ \E t \in list_folder_objects, val \in TrackInputs, reply \in {"Yes", "No"} :
           EditTrackGlobal(t, val, reply)
    \/ \E t \in list_folder_objects, id2 \in TrackInputs : SwapTrackGlobal(t, id2)
    \/ \E t \in list_folder_objects : RunInterpolation(t)
    \/ \E all_ids \in Orders(DOMAIN manager.folder_unique_tracks) :
           \E processed \in 0 .. Len(all_ids) : RunInterpolationAll(all_ids, processed)
    \/ RunYoloDetection
    \/ \E emits \in BOOLEAN, dets \in DetectionResults : YoloWorkerRun(emits, dets)
    \/ OnYoloFinished

Spec == Init /\ [][Next]_vars

(* The detection life cycle alone, with navigation: the worker thread, once  *)
(* started, runs to its end, and the event loop delivers a queued            *)
(* results_ready signal.                                                     *)
WorkerStep == \E emits \in BOOLEAN, dets \in DetectionResults : YoloWorkerRun(emits, dets)

NextLive ==
    \/ OpenFolder
    \/ NextFrame
    \/ PrevFrame
    \/ RunYoloDetection
    \/ WorkerStep
    \/ OnYoloFinished

(* A step of the worker and the delivery of its signal, by their effect on   *)
(* yolo_thread: under NextLive the first is a step of YoloWorkerRun and the  *)
(* second a step of OnYoloFinished, each enabled exactly when that action is.*)
WorkerEnds ==
    /\ yolo_thread.pc = "running"
    /\ yolo_thread' \in {[yolo_thread EXCEPT !.pc = "returned"]}
                         \cup {[yolo_thread EXCEPT !.pc = "emitted", !.results = dets] :
                                   dets \in DetectionResults}

SignalDelivered ==
    /\ yolo_thread.pc = "emitted"
    /\ yolo_thread' = [pc |-> "none", image_path |-> NoPath, results |-> <<>>]

SpecLive ==
    Init /\ [][NextLive]_vars /\ WF_yolo_thread(WorkerEnds) /\ WF_yolo_thread(SignalDelivered)

----------------------------------------------------------------------------
(* Sequence-open, navigation and the single-frame edits alone: drawing,      *)
(* resizing, deleting, single-frame retrack and reclassify, detection merge  *)

NextSingle ==
    \/ OpenFolder
    \/ NextFrame
    \/ PrevFrame
    \/ \E cid \in ClassIds, tid \in TrackInputs : StartCreationFlow(cid, tid)
    \/ \E tid \in list_folder_objects : OnFolderListItemClicked(tid)
    \/ \E rect \in DrawRects : FinalizeDrawing(rect)
    \/ CancelDrawing
    \/ \E b \in DOMAIN manager.boxes, rect \in DrawRects : MouseRelease(b, rect)
    \/ \E items \in SUBSET DOMAIN manager.boxes : DeleteSelectedBox(items)
    \/ \E b \in DOMAIN manager.boxes, c \in ClassIds : EditClassSingle(b, c)
    \/ \E b \in DOMAIN manager.boxes, val \in TrackInputs : EditTrackSingle(b, val, TRUE)
    \/ \E b \in DOMAIN manager.boxes : EditTrackSingle(b, manager.boxes[b].track_id, FALSE)
    \/ RunYoloDetection
    \/ WorkerStep
    \/ OnYoloFinished

SpecSingle == Init /\ [][NextSingle]_vars

----------------------------------------------------------------------------
(* The internal overlap filter of on_yolo_finished on its own: any list of   *)
(* detections that survived duplicate suppression                            *)

MaxDetections == 3

NmsBoxes == {BoxA, BoxA2, BoxA4, BoxB, BoxC}

NmsInputs == UNION {[1 .. n -> {Det(b, 0) : b \in NmsBoxes}] : n \in 0 .. MaxDetections}

Nms(detections) ==
    /\ last.op = "init"
    /\ last' = [op |-> "nms", arg |-> <<detections>>,
                ret |-> FinalDetections(detections), prev |-> <<"init", <<>>>>]
    /\ UNCHANGED <<writing, manager, disk, issued, snapshot, steps, window_vars>>

NextNms == \E detections \in NmsInputs : Nms(detections)

SpecNms == InitIoU /\ [][NextNms]_vars

----------------------------------------------------------------------------
(* Claims about the frame store *)

Stepped == steps' # steps

(* C8: save() persists exactly the in-memory records whose class_id is >= 0:
   every record with a negative class_id is omitted, every other record is
   written unchanged under its local id. *)
C8_SavePersistsNonNegative ==
    [][(Stepped /\ last'.op = "save_to_file" /\ manager.current_json_path # NoPath) =>
        LET f == disk'[manager.current_json_path]
        IN  /\ f.kind = "json"
            /\ \A bid \in DOMAIN manager.boxes :
                  IF manager.boxes[bid].class >= 0
                  THEN str(bid) \in DOMAIN f.data /\ f.data[str(bid)] = manager.boxes[bid]
                  ELSE str(bid) \notin DOMAIN f.data
            /\ \A k \in DOMAIN f.data : int(k) \in DOMAIN manager.boxes]_vars

(* C9: within one session (from a load to the next load) every add returns a
   local id that was neither present at load time nor returned by an earlier
   add of the session, also when the holder of that id was deleted. *)
C9_LocalIdNeverReused ==
    [][(Stepped /\ last'.op = "add_box") => last'.ret \notin issued]_vars

C9_Witness ==
    /\ last.op = "add_box"
    /\ last.prev[1] = "delete_box"
    /\ \E i \in issued : i \notin DOMAIN manager.boxes /\ i < last.ret

NoNegativeClass(boxes) == \A b \in DOMAIN boxes : boxes[b].class >= 0

(* C10: for an in-memory set without negative class ids, save() followed by
   load() of the same frame yields the same in-memory set. *)
C10_SaveLoadRoundTrip ==
    [][(/\ Stepped
        /\ last.op = "save_to_file"
        /\ last'.op = "load_from_file"
        /\ last'.arg = <<manager.current_json_path>>
        /\ NoNegativeClass(manager.boxes)) =>
        manager'.boxes = manager.boxes]_vars

C10_Witness ==
    /\ last.op = "load_from_file"
    /\ last.prev[1] = "save_to_file"
    /\ NoNegativeClass(manager.boxes)
    /\ \E b \in DOMAIN manager.boxes : manager.boxes[b].box = Box(2, 0, 12, 10)

----------------------------------------------------------------------------
(* Claims about the identity mutator *)

Records(d) == UNION {{<<f, k>> : k \in DOMAIN d[f].data} : f \in DOMAIN d}

WithTrack(d, t) == {fk \in Records(d) : d[fk[1]].data[fk[2]].track_id = t}

(* C1: when no record of the folder has track_id new, Rename(old, new) gives
   track_id new to every record that had track_id old, leaves every other
   record and every other field unchanged, and returns the number of records
   that had track_id old. *)
C1_RenameFresh ==
    [][(/\ Stepped
        /\ last'.op = "update_track_id_globally"
        /\ WithTrack(disk, last'.arg[2]) = {}) =>
        LET old == last'.arg[1]
            new == last'.arg[2]
        IN  /\ \A f \in DOMAIN disk :
                  /\ disk'[f].kind = disk[f].kind
                  /\ DOMAIN disk'[f].data = DOMAIN disk[f].data
                  /\ \A k \in DOMAIN disk[f].data :
                        disk'[f].data[k] =
                            IF disk[f].data[k].track_id = old
                            THEN [disk[f].data[k] EXCEPT !.track_id = new]
                            ELSE disk[f].data[k]
            /\ last'.ret = Cardinality(WithTrack(disk, old))]_vars

C1_Witness ==
    /\ last.op = "update_track_id_globally"
    /\ last.arg[1] # last.arg[2]
    /\ last.ret >= 2
    /\ Cardinality(WithTrack(disk, last.arg[2])) = last.ret
    /\ \E fk \in Records(disk) : disk[fk[1]].data[fk[2]].track_id # last.arg[2]
    /\ \E f \in DOMAIN disk : Cardinality(Matching(disk[f], last.arg[2])) >= 2

(* C2: Swap(id1, id2) followed by Swap(id1, id2) leaves every record of every
   frame file with the track_id it had before the first swap. *)
C2_SwapTwice ==
    [][(/\ Stepped
        /\ last.op = "swap_track_id_globally"
        /\ last'.op = "swap_track_id_globally"
        /\ last'.arg = last.arg) =>
        \A f \in DOMAIN snapshot :
            /\ disk'[f].kind = snapshot[f].kind
            /\ DOMAIN disk'[f].data = DOMAIN snapshot[f].data
            /\ \A k \in DOMAIN snapshot[f].data :
                  disk'[f].data[k].track_id = snapshot[f].data[k].track_id]_vars

C2_Witness ==
    /\ last.op = "swap_track_id_globally"
    /\ last.prev = <<"swap_track_id_globally", last.arg>>
    /\ last.ret >= 2
    /\ \E f \in DOMAIN disk :
          /\ Matching(disk[f], last.arg[1]) # {}
          /\ Matching(disk[f], last.arg[2]) # {}

----------------------------------------------------------------------------
(* Claims about the interpolation engine *)

(* C6: interpolation for track t never modifies or removes a record that was
   in a frame file before the call, and never adds a record with track_id t to
   a frame whose record set already holds a record with track_id t. *)
C6_InterpolationPreserves ==
    [][(Stepped /\ last'.op = "interpolate_track") =>
        LET t == last'.arg[1]
        IN  \A f \in DOMAIN disk :
              /\ disk[f].kind = "malformed" => disk'[f] = disk[f]
              /\ disk[f].kind = "json" =>
                    /\ disk'[f].kind = "json"
                    /\ \A k \in DOMAIN disk[f].data :
                          /\ k \in DOMAIN disk'[f].data
                          /\ disk'[f].data[k] = disk[f].data[k]
                    /\ HasTrack(disk[f].data, t) =>
                          \A k \in DOMAIN disk'[f].data \ DOMAIN disk[f].data :
                              disk'[f].data[k].track_id # t]_vars

C6_Witness ==
    /\ last.op = "interpolate_track"
    /\ last.ret >= 1
    /\ \E f \in DOMAIN disk :
          /\ Matching(disk[f], last.arg[1]) # {}
          /\ Matching(snapshot[f], last.arg[1]) = {}
          /\ snapshot[f].kind = "json"
          /\ DOMAIN snapshot[f].data # {}
    /\ \E f \in DOMAIN disk : Cardinality(Matching(snapshot[f], last.arg[1])) = 2

KeyframeIndices(d, t) == {f \in DOMAIN d : Matching(d[f], t) # {}}

Consecutive(S, a, b) == a \in S /\ b \in S /\ a < b /\ ~ \E c \in S : a < c /\ c < b

KeyframeRecord(d, f, t) ==
    d[f].data[CHOOSE k \in Matching(d[f], t) : \A j \in Matching(d[f], t) : int(k) <= int(j)]

Linear(vA, vB, k, n) == QAdd(vA, QDiv(QMul(QSub(vB, vA), Q(k)), Q(n)))

Expected(d, t, a, b, k) ==
    LET A == KeyframeRecord(d, a, t)
        B == KeyframeRecord(d, b, t)
    IN  Entry([i \in 1 .. 4 |-> Linear(A.box[i], B.box[i], k, b - a)], A.class, t)

IsExample(d) ==
    /\ DOMAIN d = 0 .. 5
    /\ KeyframeIndices(d, 1) = {2, 5}
    /\ KeyframeRecord(d, 2, 1).box = Box(0, 0, 10, 10)
    /\ KeyframeRecord(d, 5, 1).box = Box(30, 0, 40, 10)

Inserted(d0, d1, f) == {d1[f].data[k] : k \in DOMAIN d1[f].data \ DOMAIN d0[f].data}

(* C7: the record that interpolation inserts at index a+k between consecutive
   keyframes a < b of track t has track_id t, the class of the keyframe at a
   and coordinates v_A + (v_B - v_A) * k / (b - a); keyframes (0,0,10,10) at
   index 2 and (30,0,40,10) at index 5 give (10,0,20,10) at 3, (20,0,30,10)
   at 4 and the count 2. *)
C7_InterpolatedRecord ==
    [][(Stepped /\ last'.op = "interpolate_track") =>
        LET t == last'.arg[1]
            K == KeyframeIndices(disk, t)
        IN  /\ \A f \in DOMAIN disk :
                  \A rec \in Inserted(disk, disk', f) :
                      \E a \in K, b \in K :
                          /\ Consecutive(K, a, b)
                          /\ b - a > 1
                          /\ a < f /\ f < b
                          /\ rec = Expected(disk, t, a, b, f - a)
            /\ (t = 1 /\ IsExample(disk)) =>
                  /\ Inserted(disk, disk', 3) = {Entry(Box(10, 0, 20, 10), 0, 1)}
                  /\ Inserted(disk, disk', 4) = {Entry(Box(20, 0, 30, 10), 0, 1)}
                  /\ \A f \in {0, 1, 2, 5} : disk'[f] = disk[f]
                  /\ last'.ret = 2]_vars

C7_Witness ==
    /\ last.op = "interpolate_track"
    /\ last.arg = <<1>>
    /\ last.ret = 2
    /\ IsExample(snapshot)
    /\ Inserted(snapshot, disk, 3) = {Entry(Box(10, 0, 20, 10), 0, 1)}
    /\ Inserted(snapshot, disk, 4) = {Entry(Box(20, 0, 30, 10), 0, 1)}

C7_WitnessFraction ==
    /\ last.op = "interpolate_track"
    /\ last.ret = 2
    /\ \E f \in DOMAIN disk : \E rec \in Inserted(snapshot, disk, f) :
          rec.track_id = last.arg[1] /\ \E i \in 1 .. 4 : rec.box[i][2] = 3

----------------------------------------------------------------------------
(* Claims about the application's folder-wide operations *)

GlobalEdit ==
    /\ Stepped
    /\ \/ last'.op = "swap_track_global"
       \/ last'.op = "edit_class_global" /\ last'.ret # None
       \/ last'.op = "edit_track_global" /\ last'.arg[3] = 1

Completed == GlobalEdit \/ (Stepped /\ last'.op = "run_interpolation" /\ last'.ret # None)

Rebuilt(m, d) == rebuild_track_cache(m, d).folder_unique_tracks

(* C3: starting from a Track Index equal to a full rebuild of the folder,    *)
(* after a global Rename (a confirmed merge included), Reclassify or Swap    *)
(* the incrementally updated Track Index equals a full rebuild of the        *)
(* folder at that moment.                                                    *)
C3_IndexEqualsRebuild ==
    [][ (GlobalEdit /\ manager.folder_unique_tracks = Rebuilt(manager, disk))
        => manager'.folder_unique_tracks = Rebuilt(manager', disk') ]_vars

(* C4: after Interpolation, Rename, Reclassify or Swap completes, the        *)
(* in-memory set of the current frame equals that frame's persisted records. *)
C4_MemoryEqualsPersisted ==
    [][ Completed
        => manager'.boxes
               = load_from_file(manager', disk', current_frame_idx').boxes ]_vars

Delivered == yolo_thread.pc = "emitted" /\ yolo_thread'.pc = "none"

(* C5: every track id the detection merge allocates to an unmatched          *)
(* detection is fresh: no record of any frame file and no box of the         *)
(* in-memory set carries it when the result is delivered.                    *)
C5_AllocatedTrackFresh ==
    [][ Delivered
        => \A i \in 1 .. Len(last'.arg[2]) :
               /\ ~ \E w \in Records(disk) : disk[w[1]].data[w[2]].track_id = last'.arg[2][i]
               /\ ~ \E b \in DOMAIN manager.boxes :
                        manager.boxes[b].track_id = last'.arg[2][i] ]_vars

----------------------------------------------------------------------------
(* Claims about deletion and the Track Index *)

TracksIn(d) == {d[w[1]].data[w[2]].track_id : w \in Records(d)}

TracksInMemory(m) == {m.boxes[b].track_id : b \in DOMAIN m.boxes}

Deleted == Stepped /\ last'.op = "delete_selected_box"

(* C11: when a delete removes the last box of the current frame that carries *)
(* track_id t, then t leaves the Track Index if no record of any frame file  *)
(* carries t afterwards, and the entry of t remains if a record of another   *)
(* frame file still carries t.                                               *)
C11_DeleteExtinctTrack ==
    [][ Deleted =>
        \A t \in last'.arg[2] \ TracksInMemory(manager') :
            /\ t \notin TracksIn(disk') => t \notin DOMAIN manager'.folder_unique_tracks
            /\ (/\ t \in DOMAIN manager.folder_unique_tracks
                /\ \E f \in DOMAIN disk' \ {current_frame_idx} :
                       \E k \in DOMAIN disk'[f].data : disk'[f].data[k].track_id = t)
               => /\ t \in DOMAIN manager'.folder_unique_tracks
                  /\ manager'.folder_unique_tracks[t] = manager.folder_unique_tracks[t] ]_vars

C11_Witness ==
    /\ last.op = "delete_selected_box"
    /\ \E t \in last.arg[2] \ TracksInMemory(manager) :
           /\ t > 0
           /\ t \notin TracksIn(disk)
           /\ t \notin DOMAIN manager.folder_unique_tracks
    /\ \E t \in last.arg[2] \ TracksInMemory(manager) :
           /\ t \in TracksIn(disk)
           /\ t \in DOMAIN manager.folder_unique_tracks

(* C12: after a rebuild the key set of the Track Index is exactly the set of *)
(* track ids carried by the records of the parseable frame files.  The       *)
(* rebuild of the application is the one that ends edit_track_single.        *)
C12_RebuildKeySet ==
    [][ (Stepped /\ last'.op = "edit_track_single")
        => DOMAIN manager'.folder_unique_tracks = TracksIn(disk') ]_vars

C12_Witness ==
    /\ last.op = "edit_track_single"
    /\ last.prev[1] = "open_folder"
    /\ 1 \notin DOMAIN manager.folder_unique_tracks
    /\ 3 \in DOMAIN manager.folder_unique_tracks
    /\ Cardinality(TracksIn(disk)) = 2

----------------------------------------------------------------------------
(* Claims about the detection merge *)

Survivors == FinalDetections(UniqueDetections(yolo_thread.results, Values(manager.boxes)))

PrevBoxes == PrevFrameBoxes(disk, current_frame_idx)

PrevIoU(det, p) == calculate_iou(det.box, PrevBoxes[p].box)

Matched(det) == \E p \in 1 .. Len(PrevBoxes) : QLess(<<3, 10>>, PrevIoU(det, p))

BestPrev(det) ==
    {p \in 1 .. Len(PrevBoxes) :
        \A q \in 1 .. Len(PrevBoxes) : ~ QLess(PrevIoU(det, p), PrevIoU(det, q))}

UnmatchedBefore(i) == Cardinality({j \in 1 .. i - 1 : ~ Matched(Survivors[j])})

Inherits(nb, det) ==
    \E p \in BestPrev(det) :
        /\ nb.track_id = PrevBoxes[p].track_id
        /\ nb.class = PrevBoxes[p].class

RECURSIVE CounterBefore(_, _, _)
CounterBefore(i, boxes, first) ==
    IF i = 1 THEN manager.next_suggestion_track_id
    ELSE LET c == CounterBefore(i - 1, boxes, first)
             t == boxes[first + i - 2].track_id
         IN  IF Matched(Survivors[i - 1])
             THEN (IF t >= c THEN t + 1 ELSE c)
             ELSE c + 1

IsDuplicate(det) ==
    \E b \in DOMAIN manager.boxes :
        /\ QLess(<<1, 2>>, calculate_iou(det.box, manager.boxes[b].box))
        /\ det.class = manager.boxes[b].class

RECURSIVE Kept(_)
Kept(raw) ==
    IF raw = <<>> THEN <<>>
    ELSE IF IsDuplicate(Head(raw)) THEN Kept(Tail(raw))
    ELSE <<Head(raw)>> \o Kept(Tail(raw))

Stale == Delivered /\ yolo_thread.image_path # current_frame_idx

(* C15: a detection result delivered while another frame is current than the *)
(* one the task was started for adds no box, changes no Track Index entry or *)
(* counter and writes no frame file.                                         *)
C15_StaleResultDiscarded ==
    [][ Stale =>
        /\ manager'.boxes = manager.boxes
        /\ manager'.folder_unique_tracks = manager.folder_unique_tracks
        /\ manager'.next_suggestion_track_id = manager.next_suggestion_track_id
        /\ manager'.next_id = manager.next_id
        /\ disk' = disk ]_vars

InFlight == yolo_thread.pc \in {"running", "emitted"}

(* C16: between the start of a detection task and the delivery of its result *)
(* no step other than the delivery changes the Frame Store or the Track      *)
(* Index.                                                                    *)
C16_QuiescentWhileDetecting ==
    [][ (InFlight /\ ~Delivered) =>
        /\ manager'.boxes = manager.boxes
        /\ manager'.folder_unique_tracks = manager.folder_unique_tracks ]_vars

(* C17: every started detection task is eventually delivered and the         *)
(* detection trigger is enabled again.                                       *)
C17_DetectionCompletes ==
    (yolo_thread.pc = "running") ~> (yolo_thread.pc = "none" /\ btn_yolo)

(* C18: after an interrupted write the frame file holds its complete         *)
(* previous content or its complete new content, whatever reads it later.    *)
C18_WriteAtomic ==
    writing.pc = "interrupted" =>
        disk[writing.path] \in {snapshot[writing.path], writing.data}

(* C19: Reclassify(track_id, new_class) sets class_id = new_class on every   *)
(* record with that track_id in every frame file, leaves the track_id and    *)
(* geometry of those records and every other record unchanged, and returns   *)
(* the number of records it set.                                             *)
C19_Reclassify ==
    [][(Stepped /\ last'.op = "update_class_globally") =>
        LET track_id == last'.arg[1]
            new_class == last'.arg[2]
        IN  /\ \A f \in DOMAIN disk :
                  /\ disk'[f].kind = disk[f].kind
                  /\ DOMAIN disk'[f].data = DOMAIN disk[f].data
                  /\ \A k \in DOMAIN disk[f].data :
                        /\ disk'[f].data[k].track_id = disk[f].data[k].track_id
                        /\ disk'[f].data[k].box = disk[f].data[k].box
                        /\ disk'[f].data[k].class =
                               IF disk[f].data[k].track_id = track_id
                               THEN new_class
                               ELSE disk[f].data[k].class
            /\ last'.ret = Cardinality(WithTrack(disk, track_id))]_vars

C19_Witness ==
    /\ last.op = "update_class_globally"
    /\ last.ret >= 2
    /\ \E f, g \in DOMAIN disk : f # g /\ Matching(disk[f], last.arg[1]) # {}
                                       /\ Matching(disk[g], last.arg[1]) # {}
    /\ \E fk \in WithTrack(disk, last.arg[1]) :
           snapshot[fk[1]].data[fk[2]].class # last.arg[2]
    /\ \E fk \in Records(disk) : disk[fk[1]].data[fk[2]].track_id # last.arg[1]

(* C20: when a track has a record in fewer than two frames of the sequence,  *)
(* interpolation of that track returns 0 and writes no frame file.           *)
C20_TooFewKeyframes ==
    [][(/\ Stepped
        /\ last'.op = "interpolate_track"
        /\ Cardinality(KeyframeIndices(disk, last'.arg[1])) < 2) =>
        /\ last'.ret = 0
        /\ disk' = disk]_vars

C20_Witness ==
    /\ last.op = "interpolate_track"
    /\ last.ret = 0
    /\ Cardinality(KeyframeIndices(snapshot, last.arg[1])) = 1
    /\ \E a, b \in DOMAIN snapshot :
           /\ b > a + 1
           /\ snapshot[a].kind = "json" /\ DOMAIN snapshot[a].data # {}
           /\ snapshot[b].kind = "json" /\ DOMAIN snapshot[b].data # {}
    /\ disk = snapshot

(* C21: add(geometry, class_id, track_id) inserts one record under the next  *)
(* local id; when track_id > 0 it sets the Track Index entry track_id ->      *)
(* class_id and raises the next-suggested-track-id counter to track_id + 1   *)
(* if that is larger; the counter never decreases, and when track_id <= 0    *)
(* the Track Index and the counter are unchanged.                            *)
C21_AddBox ==
    [][(Stepped /\ last'.op = "add_box") =>
        LET class_id == last'.arg[1]
            track_id == last'.arg[2]
            counter == manager.next_suggestion_track_id
        IN  /\ last'.ret = manager.next_id
            /\ manager'.next_id = manager.next_id + 1
            /\ DOMAIN manager'.boxes = DOMAIN manager.boxes \cup {manager.next_id}
            /\ \A b \in DOMAIN manager.boxes : manager'.boxes[b] = manager.boxes[b]
            /\ \E rect \in StoreRects :
                   manager'.boxes[manager.next_id] =
                       [box |-> <<left(rect), top(rect), right(rect), bottom(rect)>>,
                        class |-> class_id, track_id |-> track_id]
            /\ manager'.next_suggestion_track_id >= counter
            /\ IF track_id > 0
               THEN /\ DOMAIN manager'.folder_unique_tracks =
                           DOMAIN manager.folder_unique_tracks \cup {track_id}
                    /\ manager'.folder_unique_tracks[track_id] = class_id
                    /\ \A t \in DOMAIN manager.folder_unique_tracks \ {track_id} :
                           manager'.folder_unique_tracks[t] = manager.folder_unique_tracks[t]
                    /\ manager'.next_suggestion_track_id =
                           IF track_id + 1 > counter THEN track_id + 1 ELSE counter
               ELSE /\ manager'.folder_unique_tracks = manager.folder_unique_tracks
                    /\ manager'.next_suggestion_track_id = counter ]_vars

C21_Witness ==
    /\ last.op = "add_box"
    /\ last.arg[2] = 0
    /\ last.prev = <<"add_box", <<-1, 2>>>>
    /\ manager.next_suggestion_track_id = 3
    /\ DOMAIN manager.folder_unique_tracks = {2}
    /\ manager.folder_unique_tracks[2] = -1

(* C22: load(frame_id) replaces the in-memory set with the frame's persisted *)
(* records and sets the local id allocator to max(loaded ids) + 1, or to 0   *)
(* when nothing is loaded; a frame without a file gives the empty set and    *)
(* allocator 0, and nothing of the frame loaded before remains.              *)
C22_LoadReplaces ==
    [][(Stepped /\ last'.op = "load_from_file") =>
        LET file == disk[last'.arg[1]]
            ids == IF file.kind = "json" THEN {int(k) : k \in DOMAIN file.data} ELSE {}
        IN  /\ DOMAIN manager'.boxes = ids
            /\ \A b \in ids : manager'.boxes[b] = file.data[str(b)]
            /\ manager'.next_id = IF ids = {} THEN 0 ELSE MaxOf(ids) + 1
            /\ manager'.current_json_path = last'.arg[1] ]_vars

C22_Witness ==
    /\ last.op = "load_from_file"
    /\ last.prev[1] = "add_box"
    /\ DOMAIN manager.boxes = {0, 2}
    /\ manager.next_id = 3
    /\ \A b \in DOMAIN manager.boxes : manager.boxes[b].box # Box(2, 0, 12, 10)

Width(lo1, hi1, lo2, hi2) ==
    LET lo == IF QLess(lo1, lo2) THEN lo2 ELSE lo1
        hi == IF QLess(hi1, hi2) THEN hi1 ELSE hi2
    IN  IF QLess(lo, hi) THEN QSub(hi, lo) ELSE Q(0)

Area(b) == QMul(QSub(b[3], b[1]), QSub(b[4], b[2]))

Intersection(a, b) == QMul(Width(a[1], a[3], b[1], b[3]), Width(a[2], a[4], b[2], b[4]))

(* C23: for rectangles of positive area IoU(A,A) = 1, IoU(A,B) = 0 when A    *)
(* and B do not overlap, IoU(A,B) = IoU(B,A), and otherwise IoU(A,B) =       *)
(* intersection / (areaA + areaB - intersection).                            *)
C23_IoU ==
    last.op = "calculate_iou" =>
        LET A == last.arg[1]
            B == last.arg[2]
            inter == Intersection(A, B)
        IN  /\ A = B => last.ret = Q(1)
            /\ inter = Q(0) => last.ret = Q(0)
            /\ last.ret = calculate_iou(B, A)
            /\ last.ret = QDiv(inter, QSub(QAdd(Area(A), Area(B)), inter))

C23_Witness ==
    /\ last.op = "calculate_iou"
    /\ last.arg[1] = Box(0, 0, 2, 2)
    /\ last.arg[2] = Box(1, 1, 3, 2)
    /\ last.ret = <<1, 5>>

(* C24: after Swap(id1, id2) with id1 # id2, in every frame file exactly the *)
(* records that had id1 have id2 and exactly the records that had id2 have   *)
(* id1, also in files holding both; nothing else changes, and the returned   *)
(* count is the number of records that had id1 or id2.                       *)
C24_Swap ==
    [][(/\ Stepped
        /\ last'.op = "swap_track_id_globally"
        /\ last'.arg[1] # last'.arg[2]) =>
        LET id1 == last'.arg[1]
            id2 == last'.arg[2]
        IN  /\ \A f \in DOMAIN disk :
                  /\ disk'[f].kind = disk[f].kind
                  /\ DOMAIN disk'[f].data = DOMAIN disk[f].data
                  /\ \A k \in DOMAIN disk[f].data :
                        /\ disk'[f].data[k].box = disk[f].data[k].box
                        /\ disk'[f].data[k].class = disk[f].data[k].class
                        /\ (disk'[f].data[k].track_id = id2) = (disk[f].data[k].track_id = id1)
                        /\ (disk'[f].data[k].track_id = id1) = (disk[f].data[k].track_id = id2)
                        /\ disk[f].data[k].track_id \notin {id1, id2} =>
                               disk'[f].data[k].track_id = disk[f].data[k].track_id
            /\ last'.ret = Cardinality(WithTrack(disk, id1)) + Cardinality(WithTrack(disk, id2))
       ]_vars

C24_Witness ==
    /\ last.op = "swap_track_id_globally"
    /\ last.arg = <<1, 2>>
    /\ last.ret >= 3
    /\ \E f \in DOMAIN disk :
           /\ Matching(snapshot[f], 1) # {} /\ Matching(snapshot[f], 2) # {}
           /\ Matching(disk[f], 1) = Matching(snapshot[f], 2)
           /\ Matching(disk[f], 2) = Matching(snapshot[f], 1)

RECURSIVE Sub(_, _, _)
Sub(seq, S, k) ==
    IF k > Len(seq) THEN <<>>
    ELSE IF k \in S THEN <<seq[k]>> \o Sub(seq, S, k + 1)
    ELSE Sub(seq, S, k + 1)

Overlap(dets, i, j) == QLess(<<1, 2>>, calculate_iou(dets[i].box, dets[j].box))

(* C25: after internal NMS over the surviving detections, in original order, *)
(* every pair of survivors has IoU <= 0.5, the first detection survives,     *)
(* and every dropped detection has IoU > 0.5 with an earlier survivor, never *)
(* only with a detection that was itself dropped.                            *)
C25_Nms ==
    last.op = "nms" =>
        LET dets == last.arg[1]
            n == Len(dets)
        IN  \E S \in SUBSET (1 .. n) :
                /\ last.ret = Sub(dets, S, 1)
                /\ n > 0 => 1 \in S
                /\ \A i, j \in S : i < j => ~ Overlap(dets, i, j)
                /\ \A k \in (1 .. n) \ S : \E i \in S : i < k /\ Overlap(dets, i, k)

C25_Witness ==
    /\ last.op = "nms"
    /\ last.arg[1] = <<Det(BoxA, 0), Det(BoxA2, 0), Det(BoxA4, 0)>>
    /\ last.ret = <<Det(BoxA, 0), Det(BoxA4, 0)>>

(* C26: interpolation over a sequence in which some frame file does not      *)
(* parse never fails: it treats that file as holding no record of the track, *)
(* goes on over the remaining frames and returns a count.                    *)
C26_InterpolationTolerant ==
    [][(Stepped /\ last'.op = "interpolate_track") =>
        /\ last'.ret # None
        /\ last'.ret >= 0 ]_vars

(* C27: for every folder content, scan_with_suggestion(folder) and           *)
(* rebuild(folder) leave the Track Index with the same keys and the same     *)
(* class values.                                                             *)
C27_ScanEqualsRebuild ==
    [][ (Stepped /\ last'.op = "open_folder") =>
        scan_folder(manager, disk).folder_unique_tracks
            = rebuild_track_cache(manager, disk).folder_unique_tracks ]_vars

(* C28: after any sequence of sequence-open, navigation and single-frame     *)
(* edits, each completed with its save, the key set of the incrementally     *)
(* maintained Track Index equals the key set of a full rebuild of the folder *)
(* at that moment.                                                           *)
C28_IndexKeysEqualRebuild ==
    last.op # "init" =>
        DOMAIN manager.folder_unique_tracks = DOMAIN Rebuilt(manager, disk)

(* The same over folders whose records all carry a positive track_id *)
PositiveOnly == \A fk \in Records(snapshot) : snapshot[fk[1]].data[fk[2]].track_id > 0

C28_Probe == PositiveOnly => C28_IndexKeysEqualRebuild

NoSharedTrack(boxes) ==
    \A b1, b2 \in DOMAIN boxes :
        (b1 # b2 /\ boxes[b1].track_id > 0) => boxes[b1].track_id # boxes[b2].track_id

(* C29: if no two boxes of the current frame share a positive track_id when  *)
(* a detection result is merged, then no two boxes of the current frame      *)
(* share a positive track_id after the merge.                                *)
C29_MergeKeepsTracksUnique ==
    [][ (Delivered /\ NoSharedTrack(manager.boxes)) => NoSharedTrack(manager'.boxes) ]_vars

AllParse(d) == \A f \in DOMAIN d : d[f].kind # "malformed"

Written(d0, d1) ==
    {fk \in Records(d1) : fk[1] \notin DOMAIN d0 \/ fk[2] \notin DOMAIN d0[fk[1]].data}

(* C30: after interpolate(t) on a folder whose frame files all parse, every  *)
(* frame whose index lies between the smallest and the largest keyframe      *)
(* index of t holds a record with track_id t, and the count returned is the  *)
(* number of records the call wrote.                                         *)
C30_InterpolationFills ==
    [][(Stepped /\ last'.op = "interpolate_track" /\ AllParse(disk)) =>
        LET t == last'.arg[1]
            K == KeyframeIndices(disk, t)
        IN  /\ \A f \in DOMAIN disk :
                  (\E a \in K, b \in K : a <= f /\ f <= b) => Matching(disk'[f], t) # {}
            /\ last'.ret = Cardinality(Written(disk, disk'))
            /\ \A f \in DOMAIN disk :
                  \A k \in DOMAIN disk[f].data :
                      k \in DOMAIN disk'[f].data /\ disk'[f].data[k] = disk[f].data[k] ]_vars

C30_Witness ==
    /\ last.op = "interpolate_track"
    /\ AllParse(snapshot)
    /\ last.ret = 1
    /\ Cardinality(KeyframeIndices(snapshot, last.arg[1])) = 3
    /\ Cardinality(Written(snapshot, disk)) = 1
    /\ \E f \in DOMAIN disk : snapshot[f].kind = "absent" /\ Matching(disk[f], last.arg[1]) # {}

====
